---- MODULE Spec2Model ----
(***************************************************************************)
(* Model of src/6_StatefulService/app/service.py: the stateful session     *)
(* service whose durable state (session records, event log, counters)      *)
(* lives on a volume.  The volume is modelled at the granularity of the    *)
(* file-system calls the code makes (exists, read, open-for-write with     *)
(* truncation, write, rename, unlink, append); request handlers run on     *)
(* concurrent threads (Flask's development server is threaded) and         *)
(* interleave between those calls.                                         *)
(*                                                                         *)
(* A file's content is one of: no file, a file that holds no JSON document *)
(* (opened with truncation and nothing written yet, or only part of a text *)
(* written before the write failed) or one complete serialisation.  The    *)
(* serialisations written within the bounds have equal length, so a write  *)
(* at offset 0 into a file that already holds one replaces it whole.       *)
(***************************************************************************)
EXTENDS Integers, Sequences, FiniteSets, TLC

\* ---- bounds of the model -------------------------------------------------
MaxStarts == 2      \* process starts explored
MaxReqs   == 3      \* mutating requests admitted over the whole run
MaxReads  == 1      \* read-only requests admitted over the whole run
MaxSids   == 2      \* identifiers minted over the whole run
MaxClock  == 1      \* seconds the wall clock advances over the whole run
MaxSplits == 1      \* preemptions inside "req_count += 1" SpecTally explores
MaxFails  == 1      \* session writes that fail in SpecFail
MaxLog    == 3      \* lines of the event logs SpecEvents starts from
MaxLimit  == 4      \* largest ?limit= value SpecEvents passes to list_events

Threads == {1, 2}   \* concurrent request threads of one instance
Sids    == 1..MaxSids  \* identifiers create_session can mint
Paths   == 0..MaxSids  \* <sid> values of a URL; 0 is an identifier never minted

\* ---- values --------------------------------------------------------------
Absent == "absent"                      \* key not present in the request body
CreateBodies == {[name |-> "alpha", data |-> "k1"]}
UpdateBodies == {[name |-> "beta", data |-> Absent],
                 [name |-> Absent, data |-> "k2"]}
NoBody == [name |-> Absent, data |-> Absent]

\* content of a path: no file, a file of length 0, or a complete serialisation
NoFile  == [k |-> "none"]
Empty   == [k |-> "empty"]
Full(v) == [k |-> "full", v |-> v]
IsFull(c) == c.k = "full"

\* the response body of a handler that has not returned one
NoResp == [k |-> "none"]

\* the query string of a request: no limit argument, or limit=n
NoArgs == [given |-> FALSE, limit |-> 0]
LimitArg(n) == [given |-> TRUE, limit |-> n]

NoSess == [id |-> 0, name |-> "", data |-> "", created_at |-> 0,
           last_active |-> 0, access_count |-> 0]

\* the dict _load_stats returns when stats.json does not exist
\* an initial dict that already counts the start being made
StartedStats == [startup_count |-> 1, crash_count |-> 0,
                 total_sessions |-> 0, total_requests |-> 0]

ZeroStats == [startup_count |-> 0, crash_count |-> 0,
              total_sessions |-> 0, total_requests |-> 0]

VARIABLES
    statsFile,   \* content of DATA_DIR/stats.json
    statsTmp,    \* content of DATA_DIR/stats.tmp
    sessFile,    \* sid -> content of SESSIONS_DIR/<sid>.json
    sessTmp,     \* sid -> content of SESSIONS_DIR/<sid>.tmp
    events,      \* lines of DATA_DIR/events.jsonl, in file order
    proc,        \* "down", a bootstrap step, or "up" (serving requests)
    bstats,      \* the module-level _stats dict of the running instance
    thr,         \* thread -> handler state (operation, position, locals)
    clock,       \* the wall clock, in the seconds time.strftime formats
    nextSid,     \* identifiers minted so far (uuid4 never repeats)
    nreq,        \* mutating requests admitted so far
    nread,       \* read-only requests admitted so far
    starts,      \* process starts so far
    crashReqs,   \* crash requests admitted
    crashes,     \* crash operations that reached os._exit
    created,     \* create operations that returned 201
    deleted,     \* identifiers whose delete returned 200
    made,        \* sid -> the sess dict create_session built for it
    req_count,   \* the module global req_count of the running instance
    served,      \* requests the running instance has admitted
    splits,      \* preemptions inside "req_count += 1" the scheduler has left
    fails,       \* session writes the volume will still refuse (disk full)
    lanes        \* requests the server handles at the same time

vars == <<statsFile, statsTmp, sessFile, sessTmp, events, proc, bstats,
          thr, clock, nextSid, nreq, nread, starts, crashReqs, crashes, created, deleted, made,
          req_count, served, splits, fails, lanes>>

disk == <<statsFile, statsTmp, sessFile, sessTmp, events>>
ghost == <<starts, crashReqs, crashes, created, deleted, made>>

\* rc is the value "req_count += 1" has loaded and not yet stored back.
\* eff, logged and gdel are not locals of the code; they record what the
\* handler has done so far: its rename/unlink of the record took effect, the
\* number of its _log_event calls that returned, and (for a get) whether a
\* delete of its <sid> had returned before it was admitted
Idle == [op |-> "none", pc |-> "idle", sid |-> 0, sess |-> NoSess,
         st |-> ZeroStats, fd |-> "none", body |-> NoBody,
         args |-> NoArgs, resp |-> NoResp, rc |-> 0, eff |-> FALSE, logged |-> 0, gdel |-> FALSE]

\* an empty volume and no process
Fresh ==
    /\ statsFile = NoFile
    /\ statsTmp = NoFile
    /\ sessFile = [s \in Paths |-> NoFile]
    /\ sessTmp = [s \in Paths |-> NoFile]
    /\ events = <<>>
    /\ proc = "down"
    /\ bstats = ZeroStats
    /\ thr = [t \in Threads |-> Idle]
    /\ clock = 0
    /\ nextSid = 0
    /\ nreq = 0
    /\ nread = 0
    /\ starts = 0
    /\ crashReqs = 0
    /\ crashes = 0
    /\ created = 0
    /\ deleted = {}
    /\ made = [s \in Paths |-> NoSess]
    /\ req_count = 0
    /\ served = 0

\* Spec: no thread is preempted between the load and the store of
\* "req_count += 1".  req_count is read by no handler but state, which only
\* reports it, so every other variable behaves the same either way; SpecTally
\* explores the preemption.
Init == Fresh /\ splits = 0 /\ fails = 0 /\ lanes = Cardinality(Threads)

\* ---- file-system helpers -------------------------------------------------
\* An open file follows its inode: a rename of <name>.tmp over <name>.json
\* moves a file still open under the tmp path to the destination path, and
\* drops the link to the file that was the destination before.
AfterRenameFd(f) == IF f = "tmp" THEN "dest" ELSE IF f = "dest" THEN "orphan" ELSE f
AfterUnlinkFd(f) == IF f = "dest" THEN "orphan" ELSE f

\* thread u holds stats.tmp's file open (between open-truncate and write/close)
HoldsStats(u) == thr[u].pc = "s_write"
\* thread u holds <s>.tmp's file open
HoldsSess(u, s) == thr[u].pc = "w_write" /\ thr[u].sid = s

Free == {"idle", "done", "err404", "err500"}

\* the handler returns (200/201, 404, or 500 for an uncaught exception): its
\* locals are gone; what stays is the request and the response body
Respond(r, code) ==
    [Idle EXCEPT !.op = r.op, !.pc = code, !.sid = r.sid, !.body = r.body,
                 !.args = r.args,
                 !.eff = r.eff, !.logged = r.logged, !.gdel = r.gdel,
                 !.sess = IF code = "done" /\ r.op \in {"create", "update", "get"}
                            THEN r.sess ELSE NoSess,
                 !.resp = IF code = "done" THEN r.resp ELSE NoResp]

Goto(r, pc) == IF pc \in Free THEN Respond(r, pc) ELSE [r EXCEPT !.pc = pc]

\* open(EVENTS_FILE, "w"): the file is truncated before the line is written
TruncateAndWrite(log, e) == <<e>>

\* a log kept newest first
PrependLine(log, e) == <<e>> \o log

\* with open(EVENTS_FILE, "a") as f: f.write(line): the line goes to the end
AppendLine(log, e) == Append(log, e)

Entry(kind, sid, name, sc, cc) ==
    [event |-> kind, container |-> starts, session_id |-> sid, name |-> name,
     startup_count |-> sc, crash_count |-> cc]

\* a _load_stats that answers unreadable content with the initial dict
LoadStatsRepairing(c) ==
    [ok |-> TRUE, v |-> IF IsFull(c) THEN c.v ELSE ZeroStats]

\* _load_stats: the parsed file if it exists, else the initial dict of zeros;
\* json.loads of content that is no JSON document raises (ok = FALSE)
LoadStats(c) ==
    IF c = NoFile THEN [ok |-> TRUE, v |-> ZeroStats]
    ELSE IF IsFull(c) THEN [ok |-> TRUE, v |-> c.v]
    ELSE [ok |-> FALSE, v |-> ZeroStats]

\* ---- bootstrap (module level, runs before the server accepts requests) ----
Start ==
    /\ proc = "down"
    /\ starts < MaxStarts
    /\ proc' = "b_load"
    /\ starts' = starts + 1
    /\ req_count' = 0
    /\ served' = 0
    /\ UNCHANGED <<disk, bstats, thr, clock, nextSid, nreq, nread, splits, fails, lanes, crashReqs, crashes, created, deleted, made>>

\* _stats = _load_stats(); _stats["startup_count"] += 1
\* json.loads of an empty file raises: the import fails and the process exits
bootstrap_load ==
    /\ proc = "b_load"
    /\ IF LoadStats(statsFile).ok
         THEN /\ bstats' = [LoadStats(statsFile).v EXCEPT !.startup_count = @ + 1]
              /\ proc' = "b_open"
         ELSE proc' = "down" /\ UNCHANGED bstats
    /\ UNCHANGED <<disk, thr, clock, nextSid, nreq, nread, splits, fails, lanes, req_count, served, ghost>>

bootstrap_save_open ==
    /\ proc = "b_open"
    /\ statsTmp' = Empty
    /\ proc' = "b_write"
    /\ UNCHANGED <<statsFile, sessFile, sessTmp, events, bstats, thr, clock, nextSid, nreq, nread, splits, fails, lanes, req_count, served, ghost>>

bootstrap_save_write ==
    /\ proc = "b_write"
    /\ statsTmp' = Full(bstats)
    /\ proc' = "b_rename"
    /\ UNCHANGED <<statsFile, sessFile, sessTmp, events, bstats, thr, clock, nextSid, nreq, nread, splits, fails, lanes, req_count, served, ghost>>

bootstrap_save_rename ==
    /\ proc = "b_rename"
    /\ statsFile' = statsTmp
    /\ statsTmp' = NoFile
    /\ proc' = "b_log"
    /\ UNCHANGED <<sessFile, sessTmp, events, bstats, thr, clock, nextSid, nreq, nread, splits, fails, lanes, req_count, served, ghost>>

bootstrap_log ==
    /\ proc = "b_log"
    /\ events' = AppendLine(events, Entry("startup", 0, "", bstats.startup_count,
                                          bstats.crash_count))
    /\ proc' = "up"
    /\ UNCHANGED <<statsFile, statsTmp, sessFile, sessTmp, bstats, thr, clock, nextSid, nreq, nread, splits, fails, lanes, req_count, served, ghost>>

\* the instance is stopped from outside (docker stop / restart): every thread
\* ends wherever it is
Stop ==
    /\ proc = "up"
    /\ proc' = "down"
    /\ thr' = [t \in Threads |-> Idle]
    /\ req_count' = 0
    /\ served' = 0
    /\ UNCHANGED <<disk, bstats, clock, nextSid, nreq, nread, splits, fails, lanes, ghost>>

\* what time.strftime(..., time.gmtime()) can return now: the last value any
\* handler read, or a later second
Now == clock..MaxClock

\* ---- request admission ----------------------------------------------------
\* the server hands a request to the first thread that is free
Admit(t) ==
    /\ proc = "up"
    /\ thr[t].pc \in Free
    /\ Cardinality({u \in Threads : thr[u].pc \notin Free}) < lanes
    /\ \A u \in Threads : u < t => thr[u].pc \notin Free

\* the first statement of the view function the request is routed to
FirstPc(op) ==
    IF op = "create" THEN "w_open"
    ELSE IF op = "crash" THEN "s_load"
    ELSE IF op = "events" THEN "ev_read"
    ELSE IF op = "state" THEN "st_load"
    ELSE IF op = "health" THEN "h_reply"
    ELSE IF op = "list" THEN "ls_glob"
    ELSE "l_exists"

\* @app.before_request _count: "req_count += 1" loads the global, adds 1 and
\* stores it.  The thread can be preempted between the load and the store
\* (split); the store then happens in a later step of the thread (count).
Counting(r, split) ==
    IF split THEN [r EXCEPT !.rc = req_count, !.pc = "count"]
    ELSE [r EXCEPT !.pc = FirstPc(r.op)]

Preempt == IF splits > 0 THEN {FALSE, TRUE} ELSE {FALSE}

\* thread t takes request r through _count
Tally(t, r) ==
    \E split \in Preempt :
        /\ thr' = [thr EXCEPT ![t] = Counting(r, split)]
        /\ req_count' = IF split THEN req_count ELSE req_count + 1
        /\ splits' = IF split THEN splits - 1 ELSE splits
        /\ fails' = fails
        /\ lanes' = lanes
        /\ served' = served + 1

count(t) ==
    /\ proc = "up"
    /\ thr[t].pc = "count"
    /\ req_count' = thr[t].rc + 1
    /\ thr' = [thr EXCEPT ![t].pc = FirstPc(thr[t].op), ![t].rc = 0]
    /\ UNCHANGED <<disk, proc, bstats, clock, nextSid, nreq, nread, splits, fails, lanes, served, ghost>>

\* the <sid> a client can put in a URL: one a create minted, or an unknown one
Known == 0..nextSid

\* a session dict whose last_active and access_count start one ahead
NewSessionTouched(sid, b, now) ==
    [id |-> sid, name |-> b.name, data |-> b.data, created_at |-> now,
     last_active |-> now + 1, access_count |-> 1]

\* now = time.time(); sess = {"id": sid, "name": ..., "created_at": now,
\* "last_active": now, "access_count": 0, "data": ...}
NewSession(sid, b, now) ==
    [id |-> sid, name |-> b.name, data |-> b.data, created_at |-> now,
     last_active |-> now, access_count |-> 0]

create_session(t) ==
    /\ Admit(t)
    /\ nreq < MaxReqs
    /\ nextSid < MaxSids
    /\ \E b \in CreateBodies, now \in Now :
         /\ Tally(t, [Idle EXCEPT !.op = "create",
                                   !.sid = nextSid + 1, !.body = b,
                                   !.sess = NewSession(nextSid + 1, b, now)])
         /\ made' = [made EXCEPT ![nextSid + 1] = NewSession(nextSid + 1, b, now)]
         /\ clock' = now
    /\ nextSid' = nextSid + 1
    /\ nreq' = nreq + 1
    /\ nread' = nread
    /\ UNCHANGED <<disk, proc, bstats, starts, crashReqs, crashes, created, deleted>>

update_session(t) ==
    /\ Admit(t)
    /\ nreq < MaxReqs
    /\ \E s \in Known, b \in UpdateBodies :
         Tally(t, [Idle EXCEPT !.op = "update", !.sid = s, !.body = b])
    /\ nreq' = nreq + 1
    /\ nread' = nread
    /\ UNCHANGED <<disk, proc, bstats, clock, nextSid, ghost>>

delete_session(t) ==
    /\ Admit(t)
    /\ nreq < MaxReqs
    /\ \E s \in Known :
         Tally(t, [Idle EXCEPT !.op = "delete", !.sid = s])
    /\ nreq' = nreq + 1
    /\ nread' = nread
    /\ UNCHANGED <<disk, proc, bstats, clock, nextSid, ghost>>

get_session(t) ==
    /\ Admit(t)
    /\ nread < MaxReads
    /\ \E s \in Known :
         Tally(t, [Idle EXCEPT !.op = "get", !.sid = s, !.gdel = (s \in deleted)])
    /\ nread' = nread + 1
    /\ nreq' = nreq
    /\ UNCHANGED <<disk, proc, bstats, clock, nextSid, ghost>>

crash(t) ==
    /\ Admit(t)
    /\ nreq < MaxReqs
    /\ Tally(t, [Idle EXCEPT !.op = "crash"])
    /\ nreq' = nreq + 1
    /\ nread' = nread
    /\ crashReqs' = crashReqs + 1
    /\ UNCHANGED <<disk, proc, bstats, clock, nextSid, starts, crashes, created, deleted, made>>

\* ---- _load_session --------------------------------------------------------
\* _load_session without its existence check
AfterExistsUnchecked(c) == "l_read"

\* if not p.exists(): abort(404)
AfterExists(c) == IF c = NoFile THEN "err404" ELSE "l_read"

load_session_exists(t) ==
    /\ proc = "up"
    /\ thr[t].pc = "l_exists"
    /\ thr' = [thr EXCEPT ![t] = Goto(@, AfterExists(sessFile[thr[t].sid]))]
    /\ UNCHANGED <<disk, proc, bstats, clock, nextSid, nreq, nread, splits, fails, lanes, req_count, served, ghost>>

\* an update that treats the body as the whole record: a key the body omits
\* falls back to the default create_session gives it
UpdatedReplacing(sess, body, now) ==
    [sess EXCEPT !.name = IF body.name = Absent THEN "unnamed" ELSE body.name,
                 !.data = IF body.data = Absent THEN "" ELSE body.data,
                 !.last_active = now,
                 !.access_count = @ + 1]

\* an update that stamps the record as if it were a new one
UpdatedRestamping(sess, body, now) ==
    [sess EXCEPT !.name = IF body.name = Absent THEN @ ELSE body.name,
                 !.data = IF body.data = Absent THEN @ ELSE body.data,
                 !.created_at = now,
                 !.last_active = now,
                 !.access_count = @ + 1]

\* lines 159-165 of update_session, applied to the loaded dict
Updated(sess, body, now) ==
    [sess EXCEPT !.name = IF body.name = Absent THEN @ ELSE body.name,
                 !.data = IF body.data = Absent THEN @ ELSE body.data,
                 !.last_active = now,
                 !.access_count = @ + 1]

\* update_session with _log_event called before _save_session is reached
LoadedLogsFirst(r, v, now) ==
    IF r.op = "update" THEN [r EXCEPT !.sess = Updated(v, r.body, now), !.pc = "log"]
    ELSE IF r.op = "delete" THEN [r EXCEPT !.sess = v, !.pc = "d_unlink"]
    ELSE Respond([r EXCEPT !.sess = v], "done")

\* a get that counts as an access: it stamps the record it read and saves it
LoadedTouching(r, v, now) ==
    IF r.op = "update" THEN [r EXCEPT !.sess = Updated(v, r.body, now), !.pc = "w_open"]
    ELSE IF r.op = "delete" THEN [r EXCEPT !.sess = v, !.pc = "d_unlink"]
    ELSE [r EXCEPT !.sess = [v EXCEPT !.last_active = now, !.access_count = @ + 1],
                   !.pc = "w_open"]

\* what the caller of _load_session does with the dict it got
Loaded(r, v, now) ==
    IF r.op = "update" THEN [r EXCEPT !.sess = Updated(v, r.body, now), !.pc = "w_open"]
    ELSE IF r.op = "delete" THEN [r EXCEPT !.sess = v, !.pc = "d_unlink"]
    ELSE Respond([r EXCEPT !.sess = v], "done")

\* return json.loads(p.read_text()): FileNotFoundError when the file was
\* unlinked since the exists() check, JSONDecodeError when it is empty
load_session_read(t) ==
    /\ proc = "up"
    /\ thr[t].pc = "l_read"
    /\ LET c == sessFile[thr[t].sid] IN
         \E now \in (IF IsFull(c) /\ thr[t].op = "update" THEN Now ELSE {clock}) :
            /\ thr' = [thr EXCEPT ![t] =
                        IF ~IsFull(c) THEN Respond(@, "err500")
                        ELSE Loaded(@, c.v, now)]
            /\ clock' = now
    /\ UNCHANGED <<disk, proc, bstats, nextSid, nreq, nread, splits, fails, lanes, req_count, served, ghost>>

\* ---- _save_session --------------------------------------------------------
\* tmp.write_text(...) opens <sid>.tmp for writing: creates it, or truncates
\* the file that is there (a leftover, or one another thread is writing)
save_session_open(t) ==
    /\ proc = "up"
    /\ thr[t].pc = "w_open"
    /\ sessTmp' = [sessTmp EXCEPT ![thr[t].sid] = Empty]
    /\ thr' = [thr EXCEPT ![t].pc = "w_write", ![t].fd = "tmp"]
    /\ UNCHANGED <<statsFile, statsTmp, sessFile, events, proc, bstats, clock, nextSid, nreq, nread, splits, fails, lanes, req_count, served, ghost>>

\* how the write of tmp.write_text can go: the text is written ("ok"), or the
\* write raises OSError with nothing written ("none") or part of it ("part")
WriteOutcomes == IF fails > 0 THEN {"ok", "none", "part"} ELSE {"ok"}

\* the content of the file written into: a part of the text is no JSON
\* document
Written(c, sess, out) ==
    IF out = "ok" THEN Full(sess) ELSE IF out = "part" THEN Empty ELSE c

\* _save_session continues with the rename; an OSError leaves the handler
AfterWrite(r, out) ==
    IF out = "ok" THEN [r EXCEPT !.pc = "w_rename", !.fd = "none"]
    ELSE Respond(r, "err500")

\* ... writes the serialised dict into the file it opened and closes it
save_session_write(t) ==
    /\ proc = "up"
    /\ thr[t].pc = "w_write"
    /\ \E out \in WriteOutcomes :
         LET s == thr[t].sid  f == thr[t].fd IN
           /\ sessTmp' = IF f = "tmp"
                           THEN [sessTmp EXCEPT ![s] = Written(@, thr[t].sess, out)]
                           ELSE sessTmp
           /\ sessFile' = IF f = "dest"
                            THEN [sessFile EXCEPT ![s] = Written(@, thr[t].sess, out)]
                            ELSE sessFile
           /\ thr' = [thr EXCEPT ![t] = AfterWrite(@, out)]
           /\ fails' = IF out = "ok" THEN fails ELSE fails - 1
    /\ UNCHANGED <<statsFile, statsTmp, events, proc, bstats, clock, nextSid, nreq, nread, splits, lanes, req_count, served, ghost>>

\* tmp.rename(p): FileNotFoundError when another thread renamed the tmp away
save_session_rename(t) ==
    /\ proc = "up"
    /\ thr[t].pc = "w_rename"
    /\ LET s == thr[t].sid IN
         IF sessTmp[s] = NoFile
           THEN /\ thr' = [thr EXCEPT ![t] = Respond(@, "err500")]
                /\ UNCHANGED <<sessFile, sessTmp>>
           ELSE /\ sessFile' = [sessFile EXCEPT ![s] = sessTmp[s]]
                /\ sessTmp' = [sessTmp EXCEPT ![s] = NoFile]
                /\ thr' = [u \in Threads |->
                             IF u = t THEN [thr[u] EXCEPT !.pc = "log", !.eff = TRUE]
                             ELSE IF HoldsSess(u, s)
                               THEN [thr[u] EXCEPT !.fd = AfterRenameFd(@)]
                               ELSE thr[u]]
    /\ UNCHANGED <<statsFile, statsTmp, events, proc, bstats, clock, nextSid, nreq, nread, splits, fails, lanes, req_count, served, ghost>>

\* ---- delete_session: _session_path(sid).unlink() --------------------------
delete_unlink(t) ==
    /\ proc = "up"
    /\ thr[t].pc = "d_unlink"
    /\ LET s == thr[t].sid IN
         IF sessFile[s] = NoFile
           THEN /\ thr' = [thr EXCEPT ![t] = Respond(@, "err500")]
                /\ UNCHANGED sessFile
           ELSE /\ sessFile' = [sessFile EXCEPT ![s] = NoFile]
                /\ thr' = [u \in Threads |->
                             IF u = t THEN [thr[u] EXCEPT !.pc = "log", !.eff = TRUE]
                             ELSE IF HoldsSess(u, s)
                               THEN [thr[u] EXCEPT !.fd = AfterUnlinkFd(@)]
                               ELSE thr[u]]
    /\ UNCHANGED <<statsFile, statsTmp, sessTmp, events, proc, bstats, clock, nextSid, nreq, nread, splits, fails, lanes, req_count, served, ghost>>

\* ---- _log_event: one appended line ----------------------------------------
EntryOf(r) ==
    IF r.op = "create" THEN Entry("session_created", r.sid, r.sess.name, -1, -1)
    ELSE IF r.op = "update" THEN Entry("session_updated", r.sid, "", -1, -1)
    ELSE IF r.op = "delete" THEN Entry("session_deleted", r.sid, "", -1, -1)
    ELSE Entry("crash_triggered", 0, "", -1, r.st.crash_count)

\* where a handler goes after its _log_event call
\* a create that returns once its entry is logged
AfterLogUncounted(op) ==
    IF op = "crash" THEN "k_exit" ELSE "done"

AfterLog(op) ==
    IF op = "create" THEN "s_load" ELSE IF op = "crash" THEN "k_exit" ELSE "done"

log_event(t) ==
    /\ proc = "up"
    /\ thr[t].pc = "log"
    /\ events' = AppendLine(events, EntryOf(thr[t]))
    /\ thr' = [thr EXCEPT ![t] = Goto([@ EXCEPT !.logged = @ + 1], AfterLog(thr[t].op))]
    /\ deleted' = IF thr[t].op = "delete" THEN deleted \cup {thr[t].sid} ELSE deleted
    /\ UNCHANGED <<statsFile, statsTmp, sessFile, sessTmp, proc, bstats, clock, nextSid, nreq, nread, splits, fails, lanes, req_count, served,
                   starts, crashReqs, crashes, created, made>>

\* ---- counters: _load_stats, increment, _save_stats ------------------------
\* a handler that also adds the request to the persisted total_requests
IncrementedTallying(op, st) ==
    IF op = "create" THEN [st EXCEPT !.total_sessions = @ + 1, !.total_requests = @ + 1]
    ELSE [st EXCEPT !.crash_count = @ + 1, !.total_requests = @ + 1]

\* the field a handler increments on the dict it loaded
Incremented(op, st) ==
    IF op = "create" THEN [st EXCEPT !.total_sessions = @ + 1]
    ELSE [st EXCEPT !.crash_count = @ + 1]

load_stats(t) ==
    /\ proc = "up"
    /\ thr[t].pc = "s_load"
    /\ thr' = [thr EXCEPT ![t] =
                 IF LoadStats(statsFile).ok
                 THEN [@ EXCEPT !.pc = "s_open",
                                !.st = Incremented(thr[t].op, LoadStats(statsFile).v)]
                 ELSE Respond(@, "err500")]
    /\ UNCHANGED <<disk, proc, bstats, clock, nextSid, nreq, nread, splits, fails, lanes, req_count, served, ghost>>

save_stats_open(t) ==
    /\ proc = "up"
    /\ thr[t].pc = "s_open"
    /\ statsTmp' = Empty
    /\ thr' = [thr EXCEPT ![t].pc = "s_write", ![t].fd = "tmp"]
    /\ UNCHANGED <<statsFile, sessFile, sessTmp, events, proc, bstats, clock, nextSid, nreq, nread, splits, fails, lanes, req_count, served, ghost>>

save_stats_write(t) ==
    /\ proc = "up"
    /\ thr[t].pc = "s_write"
    /\ statsTmp' = IF thr[t].fd = "tmp" THEN Full(thr[t].st) ELSE statsTmp
    /\ statsFile' = IF thr[t].fd = "dest" THEN Full(thr[t].st) ELSE statsFile
    /\ thr' = [thr EXCEPT ![t].pc = "s_rename", ![t].fd = "none"]
    /\ UNCHANGED <<sessFile, sessTmp, events, proc, bstats, clock, nextSid, nreq, nread, splits, fails, lanes, req_count, served, ghost>>

\* where a handler goes after _save_stats returns
AfterSaveStats(op) == IF op = "create" THEN "done" ELSE "log"

save_stats_rename(t) ==
    /\ proc = "up"
    /\ thr[t].pc = "s_rename"
    /\ IF statsTmp = NoFile
         THEN /\ thr' = [thr EXCEPT ![t] = Respond(@, "err500")]
              /\ UNCHANGED <<statsFile, statsTmp, created>>
         ELSE /\ statsFile' = statsTmp
              /\ statsTmp' = NoFile
              /\ thr' = [u \in Threads |->
                           IF u = t THEN Goto(thr[u], AfterSaveStats(thr[t].op))
                           ELSE IF HoldsStats(u)
                             THEN [thr[u] EXCEPT !.fd = AfterRenameFd(@)]
                             ELSE thr[u]]
              /\ created' = IF thr[t].op = "create" THEN created + 1 ELSE created
    /\ UNCHANGED <<sessFile, sessTmp, events, proc, bstats, clock, nextSid, nreq, nread, splits, fails, lanes, req_count, served,
                   starts, crashReqs, crashes, deleted, made>>

\* ---- crash: os._exit(1) ---------------------------------------------------
crash_exit(t) ==
    /\ proc = "up"
    /\ thr[t].pc = "k_exit"
    /\ proc' = "down"
    /\ thr' = [u \in Threads |-> Idle]
    /\ crashes' = crashes + 1
    /\ req_count' = 0
    /\ served' = 0
    /\ UNCHANGED <<disk, bstats, clock, nextSid, nreq, nread, splits, fails, lanes, starts, crashReqs, created, deleted, made>>

\* ---- health ------------------------------------------------------------------
\* GET /health
health(t) ==
    /\ Admit(t)
    /\ nread < MaxReads
    /\ Tally(t, [Idle EXCEPT !.op = "health"])
    /\ nread' = nread + 1
    /\ nreq' = nreq
    /\ UNCHANGED <<disk, proc, bstats, clock, nextSid, ghost>>

\* return jsonify(status="ok", container=CONTAINER_ID, uptime=...): built from
\* the globals of the instance alone
health_reply(t) ==
    /\ proc = "up"
    /\ thr[t].pc = "h_reply"
    /\ thr' = [thr EXCEPT ![t] =
                 Respond([@ EXCEPT !.resp = [k |-> "health", status |-> "ok",
                                             container |-> starts]], "done")]
    /\ UNCHANGED <<disk, proc, bstats, clock, nextSid, nreq, nread, splits, fails, lanes, req_count, served, ghost>>

\* ---- state and list_sessions --------------------------------------------------
\* the files of SESSIONS_DIR: <sid>.json and <sid>.tmp of every identifier
DirEntries ==
    {[sid |-> s, suffix |-> "json"] : s \in {x \in Sids : sessFile[x] # NoFile}}
        \cup {[sid |-> s, suffix |-> "tmp"] : s \in {x \in Sids : sessTmp[x] # NoFile}}

\* a listing of the whole directory, glob("*")
MatchesAny(e) == TRUE

\* the pattern "*.json"
Matches(e) == e.suffix = "json"

\* SESSIONS_DIR.glob("*.json"): the identifiers of the files that match
Globbed == {e.sid : e \in {d \in DirEntries : Matches(d)}}
RECURSIVE Sorted(_)
Sorted(S) ==
    IF S = {} THEN <<>>
    ELSE LET m == CHOOSE x \in S : \A y \in S : x <= y
         IN  <<m>> \o Sorted(S \ {m})

\* GET /state
state(t) ==
    /\ Admit(t)
    /\ nread < MaxReads
    /\ Tally(t, [Idle EXCEPT !.op = "state"])
    /\ nread' = nread + 1
    /\ nreq' = nreq
    /\ UNCHANGED <<disk, proc, bstats, clock, nextSid, ghost>>

\* s = _load_stats()
state_load(t) ==
    /\ proc = "up"
    /\ thr[t].pc = "st_load"
    /\ thr' = [thr EXCEPT ![t] =
                 IF LoadStats(statsFile).ok
                 THEN [@ EXCEPT !.pc = "st_glob", !.st = LoadStats(statsFile).v]
                 ELSE Respond(@, "err500")]
    /\ UNCHANGED <<disk, proc, bstats, clock, nextSid, nreq, nread, splits, fails, lanes, req_count, served, ghost>>

\* sessions = list(SESSIONS_DIR.glob("*.json")); return jsonify(...)
state_glob(t) ==
    /\ proc = "up"
    /\ thr[t].pc = "st_glob"
    /\ thr' = [thr EXCEPT ![t] =
                 Respond([@ EXCEPT !.resp =
                             [k |-> "state",
                              requests_this_instance |-> req_count,
                              startup_count |-> thr[t].st.startup_count,
                              crash_count |-> thr[t].st.crash_count,
                              total_sessions |-> thr[t].st.total_sessions,
                              total_requests |-> thr[t].st.total_requests,
                              live_sessions |-> Cardinality(Globbed)]],
                         "done")]
    /\ UNCHANGED <<disk, proc, bstats, clock, nextSid, nreq, nread, splits, fails, lanes, req_count, served, ghost>>

\* GET /sessions
list_sessions(t) ==
    /\ Admit(t)
    /\ nread < MaxReads
    /\ Tally(t, [Idle EXCEPT !.op = "list"])
    /\ nread' = nread + 1
    /\ nreq' = nreq
    /\ UNCHANGED <<disk, proc, bstats, clock, nextSid, ghost>>

\* the list comprehension has read every path of the listing
Listed(r) ==
    IF Len(r.resp.sessions) = Len(r.resp.ids)
    THEN Respond([r EXCEPT !.resp.count = Len(r.resp.sessions)], "done")
    ELSE [r EXCEPT !.pc = "ls_read"]

\* sorted(SESSIONS_DIR.glob("*.json")) is evaluated before the first file is read
list_glob(t) ==
    /\ proc = "up"
    /\ thr[t].pc = "ls_glob"
    /\ thr' = [thr EXCEPT ![t] =
                 Listed([@ EXCEPT !.resp = [k |-> "list", ids |-> Sorted(Globbed),
                                            sessions |-> <<>>, count |-> 0]])]
    /\ UNCHANGED <<disk, proc, bstats, clock, nextSid, nreq, nread, splits, fails, lanes, req_count, served, ghost>>

\* json.loads(p.read_text()) for the next path of the listing: read_text of a
\* path that is gone raises FileNotFoundError, json.loads of an empty file
\* raises JSONDecodeError
list_read(t) ==
    /\ proc = "up"
    /\ thr[t].pc = "ls_read"
    /\ LET s == thr[t].resp.ids[Len(thr[t].resp.sessions) + 1] IN
         thr' = [thr EXCEPT ![t] =
                   IF IsFull(sessFile[s])
                   THEN Listed([@ EXCEPT !.resp.sessions = Append(@, sessFile[s].v)])
                   ELSE Respond(@, "err500")]
    /\ UNCHANGED <<disk, proc, bstats, clock, nextSid, nreq, nread, splits, fails, lanes, req_count, served, ghost>>

\* ---- list_events ------------------------------------------------------------
\* Python's seq[i:]: a negative i counts from the end, and the start is
\* clipped to the sequence
PySliceFrom(seq, i) ==
    LET n     == Len(seq)
        start == IF i < 0 THEN (IF n + i < 0 THEN 0 ELSE n + i)
                 ELSE (IF i > n THEN n ELSE i)
    IN  SubSeq(seq, start + 1, n)

\* int(request.args.get("limit", 50))
DefaultLimit == 50
LimitOf(args) == IF args.given THEN args.limit ELSE DefaultLimit

\* list_events that reads the log without asking whether it exists
ListEventsUnchecked(log, args) ==
    IF log = <<>> THEN [k |-> "FileNotFoundError"]
    ELSE [k |-> "events", events |-> PySliceFrom(log, -LimitOf(args)),
          count |-> Len(log)]

\* The body list_events returns.  The program never leaves an existing log
\* without a line, so an empty events stands for events.jsonl missing.
ListEvents(log, args) ==
    IF log = <<>> THEN [k |-> "events", events |-> <<>>, count |-> 0]
    ELSE [k |-> "events", events |-> PySliceFrom(log, -LimitOf(args)),
          count |-> Len(log)]

\* GET /events?limit=<arg>, or with no limit argument
list_events(t) ==
    /\ Admit(t)
    /\ nread < MaxReads
    /\ \E args \in {LimitArg(n) : n \in 0..MaxLimit} \cup {NoArgs} :
         Tally(t, [Idle EXCEPT !.op = "events", !.args = args])
    /\ nread' = nread + 1
    /\ nreq' = nreq
    /\ UNCHANGED <<disk, proc, bstats, clock, nextSid, ghost>>

list_events_read(t) ==
    /\ proc = "up"
    /\ thr[t].pc = "ev_read"
    /\ LET r == ListEvents(events, thr[t].args) IN
         thr' = [thr EXCEPT ![t] =
                   IF r.k = "events" THEN Respond([@ EXCEPT !.resp = r], "done")
                   ELSE Respond(@, "err500")]
    /\ UNCHANGED <<disk, proc, bstats, clock, nextSid, nreq, nread, splits, fails, lanes, req_count, served, ghost>>

\* a startup line and a session_created line as _log_event writes them
StartupLine(i) ==
    [event |-> "startup", container |-> i, session_id |-> 0, name |-> "",
     startup_count |-> i, crash_count |-> 0]
CreatedLine(i) ==
    [event |-> "session_created", container |-> i, session_id |-> 1,
     name |-> "alpha", startup_count |-> -1, crash_count |-> -1]

\* the logs SpecEvents starts from: every log of up to MaxLog lines, each
\* line a startup or a session_created line, and one log longer than the
\* default limit
Logs ==
    UNION {[1..n -> {"startup", "session_created"}] : n \in 0..MaxLog}
LinesOf(kinds) ==
    [i \in 1..Len(kinds) |->
        IF kinds[i] = "startup" THEN StartupLine(i) ELSE CreatedLine(i)]
LongLog == [i \in 1..(DefaultLimit + 1) |-> StartupLine(i)]

\* an instance that is up on a volume whose log is any of these (or missing)
InitEvents ==
    /\ statsFile = Full([ZeroStats EXCEPT !.startup_count = 1])
    /\ statsTmp = NoFile
    /\ sessFile = [s \in Paths |-> NoFile]
    /\ sessTmp = [s \in Paths |-> NoFile]
    /\ events \in {LinesOf(l) : l \in Logs} \cup {LongLog}
    /\ proc = "up"
    /\ bstats = [ZeroStats EXCEPT !.startup_count = 1]
    /\ thr = [t \in Threads |-> Idle]
    /\ clock = 0
    /\ nextSid = 0
    /\ nreq = 0
    /\ nread = 0
    /\ starts = 1
    /\ crashReqs = 0
    /\ crashes = 0
    /\ created = 0
    /\ deleted = {}
    /\ made = [s \in Paths |-> NoSess]
    /\ req_count = 0
    /\ served = 0
    /\ splits = 0
    /\ fails = 0
    /\ lanes = Cardinality(Threads)

NextEvents == \E t \in Threads : list_events(t) \/ list_events_read(t)

SpecEvents == InitEvents /\ [][NextEvents]_vars

Next ==
    \/ Start
    \/ bootstrap_load
    \/ bootstrap_save_open
    \/ bootstrap_save_write
    \/ bootstrap_save_rename
    \/ bootstrap_log
    \/ Stop
    \/ \E t \in Threads :
         \/ create_session(t)
         \/ update_session(t)
         \/ delete_session(t)
         \/ get_session(t)
         \/ state(t)
         \/ state_load(t)
         \/ state_glob(t)
         \/ list_sessions(t)
         \/ list_glob(t)
         \/ list_read(t)
         \/ crash(t)
         \/ load_session_exists(t)
         \/ load_session_read(t)
         \/ save_session_open(t)
         \/ save_session_write(t)
         \/ save_session_rename(t)
         \/ delete_unlink(t)
         \/ log_event(t)
         \/ load_stats(t)
         \/ save_stats_open(t)
         \/ save_stats_write(t)
         \/ save_stats_rename(t)
         \/ crash_exit(t)

Spec == Init /\ [][Next]_vars

\* ---- the request tally under preemption ----------------------------------
\* Every request passes through _count in the same way; SpecTally admits the
\* requests that write the counters record (create, crash) and get.
InitTally == Fresh /\ splits = MaxSplits /\ fails = 0 /\ lanes = Cardinality(Threads)

NextTally ==
    \/ Start
    \/ bootstrap_load
    \/ bootstrap_save_open
    \/ bootstrap_save_write
    \/ bootstrap_save_rename
    \/ bootstrap_log
    \/ Stop
    \/ \E t \in Threads :
         \/ create_session(t)
         \/ get_session(t)
         \/ crash(t)
         \/ count(t)
         \/ load_session_exists(t)
         \/ load_session_read(t)
         \/ save_session_open(t)
         \/ save_session_write(t)
         \/ save_session_rename(t)
         \/ log_event(t)
         \/ load_stats(t)
         \/ save_stats_open(t)
         \/ save_stats_write(t)
         \/ save_stats_rename(t)
         \/ crash_exit(t)

SpecTally == InitTally /\ [][NextTally]_vars

\* ---- a volume that refuses a write ------------------------------------------
\* SpecFail runs creates and updates on a volume where up to MaxFails session
\* writes raise OSError (in Spec no write fails).
InitFail == Fresh /\ splits = 0 /\ fails = MaxFails /\ lanes = Cardinality(Threads)

NextFail ==
    \/ Start
    \/ bootstrap_load
    \/ bootstrap_save_open
    \/ bootstrap_save_write
    \/ bootstrap_save_rename
    \/ bootstrap_log
    \/ \E t \in Threads :
         \/ create_session(t)
         \/ update_session(t)
         \/ load_session_exists(t)
         \/ load_session_read(t)
         \/ save_session_open(t)
         \/ save_session_write(t)
         \/ save_session_rename(t)
         \/ log_event(t)
         \/ load_stats(t)
         \/ save_stats_open(t)
         \/ save_stats_write(t)
         \/ save_stats_rename(t)

SpecFail == InitFail /\ [][NextFail]_vars

\* ---- requests handled one at a time -----------------------------------------
\* SpecSeq is an instance that takes the next request only after it answered
\* the one before, and that nothing stops from outside: it ends only by its
\* own crash operation.
InitSeq == Fresh /\ splits = 0 /\ fails = 0 /\ lanes = 1

NextSeq ==
    \/ Start
    \/ bootstrap_load
    \/ bootstrap_save_open
    \/ bootstrap_save_write
    \/ bootstrap_save_rename
    \/ bootstrap_log
    \/ \E t \in Threads :
         \/ create_session(t)
         \/ update_session(t)
         \/ delete_session(t)
         \/ get_session(t)
         \/ state(t)
         \/ state_load(t)
         \/ state_glob(t)
         \/ list_sessions(t)
         \/ list_glob(t)
         \/ list_read(t)
         \/ crash(t)
         \/ load_session_exists(t)
         \/ load_session_read(t)
         \/ save_session_open(t)
         \/ save_session_write(t)
         \/ save_session_rename(t)
         \/ delete_unlink(t)
         \/ log_event(t)
         \/ load_stats(t)
         \/ save_stats_open(t)
         \/ save_stats_write(t)
         \/ save_stats_rename(t)
         \/ crash_exit(t)

SpecSeq == InitSeq /\ [][NextSeq]_vars

\* SpecSeqStop is the same instance when it can also be stopped from outside
\* at any moment.
NextSeqStop == NextSeq \/ Stop

SpecSeqStop == InitSeq /\ [][NextSeqStop]_vars

\* ---- the read-only operations beside writers --------------------------------
\* SpecRead runs each of get, list, state, events and health beside creates
\* and updates of one instance.
NextRead ==
    \/ Start
    \/ bootstrap_load
    \/ bootstrap_save_open
    \/ bootstrap_save_write
    \/ bootstrap_save_rename
    \/ bootstrap_log
    \/ \E t \in Threads :
         \/ create_session(t)
         \/ update_session(t)
         \/ get_session(t)
         \/ list_sessions(t)
         \/ list_glob(t)
         \/ list_read(t)
         \/ state(t)
         \/ state_load(t)
         \/ state_glob(t)
         \/ list_events(t)
         \/ list_events_read(t)
         \/ health(t)
         \/ health_reply(t)
         \/ load_session_exists(t)
         \/ load_session_read(t)
         \/ save_session_open(t)
         \/ save_session_write(t)
         \/ save_session_rename(t)
         \/ log_event(t)
         \/ load_stats(t)
         \/ save_stats_open(t)
         \/ save_stats_write(t)
         \/ save_stats_rename(t)

SpecRead == Init /\ [][NextRead]_vars

\* ==== properties ===========================================================
\* what a reader of stats.json / <sid>.json gets at this instant
Readable(c) == c = NoFile \/ IsFull(c)

\* no request handler is between its admission and its response
Quiescent == proc \in {"up", "down"} /\ \A t \in Threads : thr[t].pc \in Free

\* identifiers with a record file
OnDisk == {s \in Paths : sessFile[s] # NoFile}

\* identifiers with a session_created line and no later session_deleted line
Replay ==
    {s \in Paths :
       \E i \in 1..Len(events) :
          /\ events[i].event = "session_created"
          /\ events[i].session_id = s
          /\ \A j \in (i + 1)..Len(events) :
               ~(events[j].event = "session_deleted" /\ events[j].session_id = s)}

\* C1: a reader of a session record or of the counters record never finds
\* the destination file empty or partial: it holds a complete serialisation
\* (the prior one or the new one) in every state, whatever threads interleave.
C1_ReaderSeesComplete ==
    /\ Readable(statsFile)
    /\ \A s \in Paths : Readable(sessFile[s])

\* C2: once the process has been killed, at whatever step of a record write,
\* every record read after the restart is a complete value (the one before
\* the write or the one after it).
C2_KilledWriteLeavesValue ==
    proc = "down" => /\ Readable(statsFile)
                     /\ \A s \in Paths : Readable(sessFile[s])

\* C3: whenever no request is in flight, the identifiers with a record on
\* disk are exactly those the event log replays to.
C3_DiskEqualsReplay == Quiescent => OnDisk = Replay

\* C4: whenever no request is in flight, after N process starts on a volume
\* that began empty the persisted startup_count is N.
C4_StartupCountIsStarts ==
    Quiescent /\ starts > 0 =>
        IsFull(statsFile) /\ statsFile.v.startup_count = starts

\* C5: after K crash operations were triggered and each ran to its exit,
\* the persisted crash_count is K.
C5_CrashCountIsCrashes ==
    proc = "down" /\ IsFull(statsFile) /\ crashes = crashReqs =>
        statsFile.v.crash_count = crashes

\* C6: whenever no request is in flight, the persisted total_sessions is the
\* number of creates that returned successfully.
C6_TotalIsCreated ==
    Quiescent /\ IsFull(statsFile) => statsFile.v.total_sessions = created

\* C7: no step lowers a field of the persisted counters record.
C7_CountersMonotone ==
    [][IsFull(statsFile) /\ IsFull(statsFile') =>
         /\ statsFile'.v.startup_count >= statsFile.v.startup_count
         /\ statsFile'.v.crash_count >= statsFile.v.crash_count
         /\ statsFile'.v.total_sessions >= statsFile.v.total_sessions]_vars

\* thread t has read the counters record and not yet written it back
InCounterCycle(t) == thr[t].pc \in {"s_open", "s_write", "s_rename"}

\* C8: read-modify-write cycles on the counters record are mutually
\* exclusive: at most one thread is between its read and its write-back.
C8_CounterCyclesExclusive ==
    \A t, u \in Threads : InCounterCycle(t) /\ InCounterCycle(u) => t = u

\* C9: with no crash request around, a create never ends in an error.
C9_CreateNeverFails ==
    crashReqs = 0 =>
        \A t \in Threads : ~(thr[t].op = "create" /\ thr[t].pc = "err500")

\* C10: a session whose delete has completed has no record file in any
\* later state.
C10_DeletedStaysDeleted == \A s \in deleted : sessFile[s] = NoFile

\* C11: a get admitted after a delete of the same identifier returned never
\* finds the session: it ends in the 404 of _load_session.
C11_GetAfterDeleteIsNotFound ==
    \A t \in Threads :
        thr[t].op = "get" /\ thr[t].gdel /\ thr[t].pc \in Free
            => thr[t].pc = "err404"

\* the session entries of the log that carry identifier s, in log order
EntriesOf(s) == SelectSeq(events, LAMBDA e : e.session_id = s)

\* C12: for every identifier the log holds its entries in lifecycle order:
\* session_created comes first, every session_updated comes after it, and
\* nothing follows session_deleted.
C12_LifecycleOrder ==
    \A s \in Sids :
        LET l == EntriesOf(s) IN
            \A i \in 1..Len(l) :
                /\ (l[i].event = "session_created") = (i = 1)
                /\ l[i].event = "session_deleted" => i = Len(l)

IsPrefix(a, b) == Len(a) <= Len(b) /\ SubSeq(b, 1, Len(a)) = a

\* C13: the event log is append-only: over every step, restart and crash
\* included, the log before the step is a prefix of the log after it.
C13_LogAppendOnly == [][IsPrefix(events, events')]_vars

\* a second instance has appended to the log the first instance left
C13_Witness ==
    /\ Len(events) >= 3
    /\ events[1].container = 1
    /\ events[Len(events)].container = 2

\* the log entry kind the spec assigns to a session operation
KindOf(op) ==
    IF op = "create" THEN "session_created"
    ELSE IF op = "update" THEN "session_updated"
    ELSE "session_deleted"

SessionOps == {"create", "update", "delete"}

\* C14: every create, update and delete that completes has appended exactly
\* one entry of its kind with its session's identifier, and every session
\* entry that reaches the log is appended by a handler of that kind for that
\* identifier whose own rename or unlink of the record has already happened:
\* no entry is appended ahead of, or without, its record change.
C14_OneEntryAfterEffect ==
    [][/\ \A t \in Threads :
            /\ thr'[t].logged <= 1
            /\ thr'[t].op \in SessionOps /\ thr'[t].pc = "done"
                   => thr'[t].logged = 1 /\ thr'[t].eff
       /\ events' # events /\ events'[Len(events')].event # "startup"
                           /\ events'[Len(events')].event # "crash_triggered"
            => \E t \in Threads :
                  /\ thr[t].op \in SessionOps
                  /\ thr[t].eff
                  /\ thr[t].logged = 0
                  /\ thr'[t].logged = 1
                  /\ Len(events') = Len(events) + 1
                  /\ events'[Len(events')].event = KindOf(thr[t].op)
                  /\ events'[Len(events')].session_id = thr[t].sid]_vars

\* a delete and an update have both completed and the log holds their entries
C14_Witness ==
    /\ \E t \in Threads : thr[t].op = "delete" /\ thr[t].pc = "done"
    /\ \E t \in Threads : thr[t].op = "update" /\ thr[t].pc = "done"
    /\ \E i, j \in 1..Len(events) :
          /\ events[i].event = "session_updated"
          /\ events[j].event = "session_deleted"

\* C15: the record an update builds from the record it loaded: a field the
\* body omits keeps the loaded value, a field the body supplies is replaced
\* by the supplied value as a whole, last_active is the time read by the
\* update, access_count is the loaded value plus exactly 1, id and
\* created_at are the loaded ones; and that record is what the update hands
\* to _save_session unchanged.
C15_UpdateFrame ==
    [][\A t \in Threads :
          /\ thr[t].op = "update" /\ thr[t].pc = "l_read" /\ thr'[t].pc = "w_open"
               => LET old == sessFile[thr[t].sid].v
                      new == thr'[t].sess
                      b   == thr[t].body
                  IN  /\ new.name = (IF b.name = Absent THEN old.name ELSE b.name)
                      /\ new.data = (IF b.data = Absent THEN old.data ELSE b.data)
                      /\ new.last_active = clock'
                      /\ new.last_active >= old.last_active
                      /\ new.access_count = old.access_count + 1
                      /\ new.id = old.id
                      /\ new.created_at = old.created_at
          /\ thr[t].op = "update" /\ thr[t].pc = "w_write" /\ thr'[t].pc = "w_rename"
               /\ thr[t].fd = "tmp"
               => sessTmp'[thr[t].sid] = Full(thr[t].sess)
          /\ thr[t].op = "update" /\ thr'[t].op = "update"
               /\ thr[t].pc \in {"w_open", "w_write", "w_rename", "log"}
               /\ thr'[t].pc # "err500"
               => thr'[t].sess = thr[t].sess]_vars

\* an update that supplied only the name has returned a record that still
\* carries the payload the create stored, with access_count 1
C15_Witness ==
    \E t \in Threads :
        /\ thr[t].op = "update" /\ thr[t].pc = "done"
        /\ thr[t].body.data = Absent /\ thr[t].body.name # Absent
        /\ thr[t].sess.name = thr[t].body.name
        /\ thr[t].sess.data = made[thr[t].sid].data
        /\ thr[t].sess.access_count = 1

\* program points of create_session after the sess dict is built
CreatePcs == {"w_open", "w_write", "w_rename", "log",
              "s_load", "s_open", "s_write", "s_rename", "done"}

\* C16: create_session builds a record with access_count 0, created_at equal
\* to last_active and an identifier no earlier create was given and no record
\* exists for; it persists exactly that record and returns it; and a get that
\* completes returns exactly the stored record, which while no update has
\* counted an access is the record create built.
C16_CreateThenGet ==
    [][\A t \in Threads :
          /\ thr'[t].op = "create" /\ thr'[t].pc \in CreatePcs
               => /\ thr'[t].sess.access_count = 0
                  /\ thr'[t].sess.created_at = thr'[t].sess.last_active
                  /\ thr'[t].sess.id = thr'[t].sid
                  /\ thr'[t].sess = made'[thr'[t].sid]
          /\ thr'[t].op = "create" /\ thr'[t].pc = "w_open" /\ thr[t].pc \in Free
               => /\ made[thr'[t].sid] = NoSess
                  /\ sessFile[thr'[t].sid] = NoFile
                  /\ sessTmp[thr'[t].sid] = NoFile
          /\ thr[t].op = "create" /\ thr[t].pc = "w_rename" /\ thr'[t].pc = "log"
               => sessFile'[thr[t].sid] = Full(thr[t].sess)
          /\ thr[t].op = "get" /\ thr[t].pc = "l_read" /\ thr'[t].pc = "done"
               => /\ thr'[t].sess = sessFile[thr[t].sid].v
                  /\ thr'[t].sess.access_count = 0
                        => thr'[t].sess = made[thr[t].sid]]_vars

\* a get has returned the record exactly as create built it
C16_Witness ==
    \E t \in Threads :
        /\ thr[t].op = "get" /\ thr[t].pc = "done"
        /\ thr[t].sid \in Sids
        /\ thr[t].sess = made[thr[t].sid]
        /\ thr[t].sess.access_count = 0
        /\ created >= 1

\* C17: a get, update or delete whose identifier has no record when the
\* handler checks for it ends in NotFound at that step, and the handler has
\* changed nothing: no file, no counter and no log entry differs across the
\* step, and a handler that ended in NotFound has neither changed a record
\* nor appended an entry.
C17_MissingIsNotFound ==
    [][\A t \in Threads :
          /\ thr[t].op \in {"get", "update", "delete"}
               /\ thr[t].pc = "l_exists"
               /\ sessFile[thr[t].sid] = NoFile
               /\ thr'[t] # thr[t]
               /\ proc' = "up"
               => thr'[t].pc = "err404" /\ disk' = disk
          /\ thr'[t].pc = "err404"
               => /\ ~thr'[t].eff
                  /\ thr'[t].logged = 0
                  /\ thr[t].pc \in {"l_exists", "err404"}]_vars

\* a delete and a get of an identifier whose record a completed delete removed
\* have both ended in NotFound
C17_Witness ==
    /\ \E t \in Threads :
          thr[t].op = "delete" /\ thr[t].pc = "err404" /\ thr[t].sid \in deleted
    /\ \E t \in Threads :
          thr[t].op = "get" /\ thr[t].pc = "err404" /\ thr[t].sid \in deleted

\* the startup entries of the log, in log order
StartupEntries == SelectSeq(events, LAMBDA e : e.event = "startup")

\* C18: once a process start has run its course, the log holds exactly one
\* startup entry per start, and the startup entries carry startup_count
\* 1, 2, 3, ... in log order.
C18_OneStartupEntryPerStart ==
    proc \in {"up", "down"} =>
        /\ Len(StartupEntries) = starts
        /\ \A i \in 1..Len(StartupEntries) : StartupEntries[i].startup_count = i

\* C19: when a crash handler terminates the process, the crash_count it
\* incremented is what the counters record on disk holds (or has since been
\* counted past), the log holds its crash_triggered entry with that count,
\* and a terminated instance changes no persisted state.
C19_CrashDurableBeforeExit ==
    [][/\ crashes' = crashes + 1
            => \E t \in Threads :
                  /\ thr[t].op = "crash" /\ thr[t].pc = "k_exit"
                  /\ IsFull(statsFile)
                  /\ statsFile.v.crash_count >= thr[t].st.crash_count
                  /\ \E i \in 1..Len(events) :
                        /\ events[i].event = "crash_triggered"
                        /\ events[i].crash_count = thr[t].st.crash_count
       /\ proc = "down" => disk' = disk]_vars

\* no delete of s has been admitted in this instance or completed before
NoDelete(s) ==
    /\ s \notin deleted
    /\ \A t \in Threads : ~(thr[t].op = "delete" /\ thr[t].sid = s)
    /\ \A i \in 1..Len(events) :
          ~(events[i].event = "session_deleted" /\ events[i].session_id = s)

\* C20: with no delete of the session around, an update never ends in an
\* error other than NotFound, and when two updates of one session have both
\* returned, the stored record is exactly the record one of them saved.
C20_ConcurrentUpdatesAllOrNothing ==
    \A s \in Sids :
        NoDelete(s) =>
            /\ \A t \in Threads :
                  ~(thr[t].op = "update" /\ thr[t].sid = s /\ thr[t].pc = "err500")
            /\ \A t, u \in Threads :
                  /\ t # u
                  /\ thr[t].op = "update" /\ thr[t].sid = s /\ thr[t].pc = "done"
                  /\ thr[u].op = "update" /\ thr[u].sid = s /\ thr[u].pc = "done"
                  => sessFile[s] \in {Full(thr[t].sess), Full(thr[u].sess)}

\* the steps of the module-level bootstrap
BootPcs == {"b_load", "b_open", "b_write", "b_rename", "b_log"}

\* C21: the request tally of an instance is 0 while the instance starts, never
\* exceeds the number of requests that instance has admitted, and never
\* reaches the counters record: every serialisation of the record, in
\* stats.json or stats.tmp, holds the four counter fields only and its
\* total_requests is the 0 the record was initialized with.
C21_TallyEphemeral ==
    /\ proc \in BootPcs => req_count = 0
    /\ req_count <= served
    /\ \A c \in {statsFile, statsTmp} :
          IsFull(c) => /\ DOMAIN c.v = DOMAIN ZeroStats
                       /\ c.v.total_requests = 0

\* a second instance has admitted two requests and lost one of the two
\* increments, after the first instance had served a request
C21_Witness ==
    /\ starts = 2 /\ proc = "up"
    /\ created = 1
    /\ served = 2 /\ req_count = 1
    /\ \A t \in Threads : thr[t].pc # "count"
    /\ IsFull(statsFile) /\ statsFile.v.total_requests = 0

\* the last k lines of a log
LastLines(log, k) ==
    SubSeq(log, Len(log) - (IF k < Len(log) THEN k ELSE Len(log)) + 1, Len(log))

\* C22: list_events with limit L >= 0 returns the last min(L, n) lines of a
\* log of n lines, in log order (none for L = 0), and with no limit given it
\* returns the last min(50, n).
C22_LastLimitEntries ==
    \A t \in Threads :
        thr[t].op = "events" /\ thr[t].pc = "done" =>
            LET L == IF thr[t].args.given THEN thr[t].args.limit ELSE 50
            IN  thr[t].resp.events = LastLines(events, L)

\* C30: list_events on a volume with no log file answers with an empty list
\* and count 0, raises nothing, and leaves the log file missing.
C30_MissingLogReadsEmpty ==
    [][\A t \in Threads :
          (thr[t].pc = "ev_read" /\ events = <<>> /\ thr'[t].pc # "ev_read") =>
              /\ thr'[t].pc = "done"
              /\ thr'[t].resp = [k |-> "events", events |-> <<>>, count |-> 0]
              /\ events' = <<>>]_vars

C30_Witness ==
    /\ events = <<>>
    /\ \E t \in Threads :
          /\ thr[t].op = "events" /\ thr[t].pc = "done"
          /\ thr[t].args.given /\ thr[t].args.limit = 2
          /\ thr[t].resp.count = 0

\* C23: _load_stats on a volume with no counters file takes all four fields
\* as zero, so the first start on an empty volume persists startup_count = 1
\* and zeros elsewhere; and a counters file that exists is never removed.
C23_ColdToWarm ==
    [][/\ (proc = "b_load" /\ statsFile = NoFile /\ proc' # "b_load") =>
              /\ proc' = "b_open"
              /\ bstats' = [startup_count |-> 1, crash_count |-> 0,
                            total_sessions |-> 0, total_requests |-> 0]
       /\ (proc = "b_rename" /\ starts = 1 /\ proc' # "b_rename") =>
              statsFile' = Full([startup_count |-> 1, crash_count |-> 0,
                                 total_sessions |-> 0, total_requests |-> 0])
       /\ statsFile # NoFile => statsFile' # NoFile]_vars

C23_Witness ==
    /\ starts = 2 /\ proc = "up"
    /\ IsFull(statsFile) /\ statsFile.v.startup_count = 2
    /\ Len(events) >= 2

\* C27: a stored session record always carries the identifier it is stored
\* under and the created_at its create gave it.
C27_IdAndCreatedAtFixed ==
    \A s \in Paths :
        IsFull(sessFile[s]) =>
            /\ sessFile[s].v.id = s
            /\ sessFile[s].v.created_at = made[s].created_at

C27_Witness ==
    \E s \in Paths :
        /\ IsFull(sessFile[s])
        /\ sessFile[s].v.access_count >= 1
        /\ sessFile[s].v.last_active # sessFile[s].v.created_at

\* every entry an instance's handlers wrote has that instance's startup entry
\* somewhere before it
AfterOwnStartup ==
    \A j \in 1..Len(events) :
        events[j].event # "startup" =>
            \E i \in 1..(j - 1) : /\ events[i].event = "startup"
                                  /\ events[i].container = events[j].container

\* C29: a handler's entry is placed after every entry already in the log, so
\* the entry of an operation that completed before another started precedes
\* that other's entry; and every entry of an instance follows the instance's
\* startup entry.
C29_EntriesInCompletionOrder ==
    [][/\ \A t \in Threads :
            (thr[t].pc = "log" /\ thr'[t].logged = thr[t].logged + 1) =>
                /\ Len(events') = Len(events) + 1
                /\ SubSeq(events', 1, Len(events)) = events
                /\ events'[Len(events')].container = starts
                /\ events'[Len(events')].session_id = thr[t].sid
       /\ AfterOwnStartup']_vars

C29_Witness ==
    /\ Len(events) = 4
    /\ events[1].event = "startup" /\ events[1].container = 1
    /\ events[2].event = "session_created"
    /\ events[3].event = "startup" /\ events[3].container = 2
    /\ events[4].event = "session_updated" /\ events[4].container = 2

\* C26: the state operation always answers, and the four counters it returns
\* are the content one completed write left in stats.json, whatever the
\* counter writers running beside it do.
C26_SnapshotOfOneWrite ==
    [][\A t \in Threads :
          (thr[t].pc = "st_load" /\ thr'[t].pc # "st_load" /\ proc' = "up") =>
              /\ IsFull(statsFile)
              /\ thr'[t].pc = "st_glob"
              /\ thr'[t].st = statsFile.v]_vars

\* the listing of a finished list_sessions holds one record per identifier of
\* the directory listing it started from, in ascending identifier order
ListedAll(r) ==
    /\ r.pc = "done"
    /\ Len(r.resp.sessions) = Len(r.resp.ids)
    /\ r.resp.count = Len(r.resp.ids)
    /\ \A i \in 1..Len(r.resp.ids) : r.resp.sessions[i].id = r.resp.ids[i]
    /\ \A i \in 1..Len(r.resp.ids) : \A j \in 1..Len(r.resp.ids) :
          i < j => r.resp.ids[i] < r.resp.ids[j]

\* C28: list_sessions returns the record of every session file found when it
\* is called, each once and in identifier order, and state reports the number
\* of session files as live_sessions.
C28_ListIsTheFiles ==
    [][\A t \in Threads :
          /\ (thr[t].pc \in {"ls_glob", "ls_read"} /\ thr'[t].pc \in Free /\ proc' = "up")
                => ListedAll(thr'[t])
          /\ (thr[t].pc = "st_glob" /\ thr'[t].pc \in Free /\ proc' = "up")
                => /\ thr'[t].pc = "done"
                   /\ thr'[t].resp.live_sessions = Cardinality(Globbed)]_vars

\* C24: a session write that fails ends the handler in an error with the
\* stored record, the log and the counters as they were: after a failed update
\* the stored session is still a complete record, after a failed create there
\* is no record of the new session.
C24_FailedWriteLeavesDestination ==
    [][\A t \in Threads :
          (thr[t].pc = "w_write" /\ thr'[t] # thr[t] /\ fails' = fails - 1) =>
              /\ thr'[t].pc = "err500"
              /\ sessFile' = sessFile
              /\ events' = events
              /\ statsFile' = statsFile
              /\ thr[t].logged = 0
              /\ thr[t].op = "update" => IsFull(sessFile'[thr[t].sid])
              /\ thr[t].op = "create" => sessFile'[thr[t].sid] = NoFile]_vars

\* C25: a reader that meets content it cannot deserialize ends in an error
\* and changes no file: a get, update or delete reading a session, a list
\* reading a listed session, a handler or the state operation reading the
\* counters, and the counter load at process start (the process exits).  No
\* counters record is ever one that was restarted from zeros.
C25_CorruptSurfacedNotRepaired ==
    [][/\ \A t \in Threads :
            /\ (/\ thr[t].pc = "l_read"
                /\ sessFile[thr[t].sid] = Empty
                /\ thr'[t] # thr[t] /\ proc' = "up")
                  => thr'[t].pc = "err500" /\ disk' = disk
            /\ (/\ thr[t].pc = "ls_read"
                /\ sessFile[thr[t].resp.ids[Len(thr[t].resp.sessions) + 1]] = Empty
                /\ thr'[t] # thr[t] /\ proc' = "up")
                  => thr'[t].pc = "err500" /\ disk' = disk
            /\ (/\ thr[t].pc \in {"s_load", "st_load"}
                /\ statsFile = Empty
                /\ thr'[t] # thr[t] /\ proc' = "up")
                  => thr'[t].pc = "err500" /\ disk' = disk
       /\ (proc = "b_load" /\ statsFile = Empty /\ proc' # "b_load")
             => proc' = "down" /\ disk' = disk
       /\ IsFull(statsFile') => statsFile'.v.startup_count >= 1]_vars

C25_Witness ==
    /\ statsFile = Empty
    /\ \E t \in Threads : thr[t].op = "state" /\ thr[t].pc = "err500"

\* the session_deleted entries of the log that carry identifier s
DeletedEntries(s) == SelectSeq(EntriesOf(s), LAMBDA e : e.event = "session_deleted")

\* C31: a delete ends as deleted or as NotFound and in no other error, also
\* beside another delete or an update of the same session, and the log holds
\* at most one session_deleted entry per identifier.
C31_ConcurrentDeletesOneWins ==
    /\ \A t \in Threads :
          thr[t].op = "delete" /\ thr[t].pc \in Free
              => thr[t].pc \in {"done", "err404"}
    /\ \A s \in Sids : Len(DeletedEntries(s)) <= 1

ReadOps == {"get", "list", "state", "events", "health"}

\* C32: no step of a get, list, state, events or health request, from its
\* admission to its response, changes a file of the volume (session records,
\* temporary files, counters, event log); and health answers from the
\* instance's own globals whatever the volume holds.
C32_ReadOnlyFrame ==
    [][\A t \in Threads :
          /\ (thr'[t] # thr[t] /\ thr'[t].op \in ReadOps) => disk' = disk
          /\ (thr[t].pc = "h_reply" /\ thr'[t] # thr[t] /\ proc' = "up")
                => /\ thr'[t].pc = "done"
                   /\ thr'[t].resp = [k |-> "health", status |-> "ok",
                                      container |-> starts]]_vars

\* a get has answered with a record that an update had touched before
C32_Witness ==
    \E t \in Threads :
        /\ thr[t].op = "get" /\ thr[t].pc = "done"
        /\ thr[t].sess.access_count = 1
        /\ sessFile[thr[t].sid] = Full(thr[t].sess)

\* the number of log entries of a kind
CountOf(kind) == Len(SelectSeq(events, LAMBDA e : e.event = kind))

\* C33: with requests handled one at a time and none cut short, whenever no
\* request is in flight the persisted total_sessions equals the number of
\* session_created entries, which equals the number of session records on
\* disk plus the number of session_deleted entries.
C33_CountsAgreeWhenSequential ==
    Quiescent /\ statsFile # NoFile =>
        /\ IsFull(statsFile)
        /\ statsFile.v.total_sessions = CountOf("session_created")
        /\ CountOf("session_created") = Cardinality(OnDisk) + CountOf("session_deleted")

\* a second instance, after a create, a delete and a crash of the first
C33_Witness ==
    /\ Quiescent /\ starts = 2 /\ proc = "up" /\ lanes = 1
    /\ CountOf("session_created") = 1
    /\ CountOf("session_deleted") = 1
    /\ OnDisk = {}
    /\ IsFull(statsFile) /\ statsFile.v.total_sessions = 1

\* the session_updated entries of the log that carry identifier s
UpdatedEntries(s) == SelectSeq(EntriesOf(s), LAMBDA e : e.event = "session_updated")

\* C34: with requests handled one at a time, whenever none is in flight the
\* access_count of a stored session is the number of updates of it that
\* completed (each completed update has its session_updated entry), and no
\* step lowers the access_count of a session that stays stored.
C34_AccessCountIsUpdates ==
    [][/\ Quiescent' =>
            \A s \in Sids :
                IsFull(sessFile'[s]) =>
                    sessFile'[s].v.access_count = Len(UpdatedEntries(s))'
       /\ \A s \in Sids :
            IsFull(sessFile[s]) /\ IsFull(sessFile'[s]) =>
                sessFile'[s].v.access_count >= sessFile[s].v.access_count]_vars

\* the identifiers that have a session record file
Stored == {s \in Sids : sessFile[s] # NoFile}

\* thread t takes a step of its handler and the instance stays up
Steps(t) == thr'[t] # thr[t] /\ proc' = "up"

\* C35: list and the live_sessions number of state take exactly the
\* identifiers that have a <sid>.json file, whatever <sid>.tmp files a stopped
\* write left behind; and a write of a record whose <sid>.tmp is there from
\* before truncates it, writes its record into it and renames it into place,
\* leaving no temporary file and ending in no error.
C35_LeftoverTmpIsNoSession ==
    [][\A t \in Threads :
          /\ (thr[t].pc = "ls_glob" /\ Steps(t)) =>
                /\ thr'[t].pc # "err500"
                /\ {thr'[t].resp.ids[i] : i \in 1..Len(thr'[t].resp.ids)} = Stored
                /\ Len(thr'[t].resp.ids) = Cardinality(Stored)
          /\ (thr[t].pc = "st_glob" /\ Steps(t)) =>
                thr'[t].resp.live_sessions = Cardinality(Stored)
          /\ (thr[t].pc = "w_open" /\ Steps(t)) =>
                /\ thr'[t].pc = "w_write"
                /\ sessTmp'[thr[t].sid] = Empty
          /\ (thr[t].pc = "w_write" /\ Steps(t)) =>
                /\ thr'[t].pc = "w_rename"
                /\ sessTmp'[thr[t].sid] = Full(thr[t].sess)
          /\ (thr[t].pc = "w_rename" /\ Steps(t)) =>
                /\ thr'[t].pc = "log"
                /\ sessFile'[thr[t].sid] = Full(thr[t].sess)
                /\ sessTmp'[thr[t].sid] = NoFile]_vars

\* a create was stopped before its rename; the next instance lists no session
\* while <sid>.tmp is still there
C35_Witness ==
    /\ starts = 2
    /\ \E s \in Sids : sessTmp[s] # NoFile /\ sessFile[s] = NoFile
    /\ \E t \in Threads :
          /\ thr[t].op = "list" /\ thr[t].pc = "done"
          /\ thr[t].resp.ids = <<>>

====
